---- MODULE Spec2Model ----
(***************************************************************************)
(* osort: the dependency-aware statement sorter of odoo_sort.              *)
(*                                                                         *)
(* The model follows src/src/osort/_osort.py.  A source file is a value    *)
(* (bytes or text) made of lines; each line carries one top-level item and *)
(* its line terminator.  Statements are records: the syntactic node type,  *)
(* the bindings, the decorators, the names read at load time (hard) and at *)
(* run time (soft), and for a class its body.  The helpers that _osort.py  *)
(* imports from _graphs, _dependencies, _parsing and _utils are modelled   *)
(* from their description in spec.md (sections 4.1 to 4.6).                *)
(***************************************************************************)
EXTENDS Integers, Sequences, FiniteSets, TLC

VARIABLES
  pc,            \* position inside the running call of osort
  pass,          \* 1: osort(x), 2: osort(osort(x))
  source,        \* the argument of the running call
  options,       \* sort_fields and the five on_* policies
  text,          \* the local variable `text`
  encoding,      \* the local variable `encoding`
  newline,       \* the local variable `newline`
  statements,    \* the local variable `statements`
  graph,         \* the local variable `graph`
  sorted_statements, \* the local variable `sorted_statements`
  texts,         \* the statement texts emitted so far, to be joined
  cls,           \* the locals of _statement_text_sorted_class, while it runs
  calls,         \* the policy invocations of the running call, in order
  outcome,       \* what the running call returned or raised
  first          \* the outcome of the first call, kept during the second

vars == << pc, pass, source, options, text, encoding, newline, statements,
           graph, sorted_statements, texts, cls, calls, outcome, first >>

----------------------------------------------------------------------------
(* Bounds of the model.                                                    *)

MaxBody == 5
MaxStmts == 4
MaxLines == 2
MaxMembers == 4

----------------------------------------------------------------------------
(* Closed identifier lists, verbatim.                                      *)

SPECIAL_PROPERTIES ==
  <<
    "__doc__", "__slots__"
  >>

LIFECYCLE_OPERATIONS ==
  <<
    "__new__", "__init__", "__del__", "__copy__", "__deepcopy__",
    "__init_subclass__", "__instancecheck__", "__subclasscheck__",
    "__class_getitem__", "__get__", "__set__", "__delete__", "__set_name__"
  >>

REGULAR_OPERATIONS ==
  <<
    "__call__", "__getattr__", "__getattribute__", "__setattr__",
    "__delattr__", "__dir__", "__getitem__", "__setitem__", "__delitem__",
    "__missing__", "__iter__", "__reversed__", "__contains__", "__len__",
    "__length_hint__", "__add__", "__radd__", "__iadd__", "__sub__",
    "__rsub__", "__isub__", "__mul__", "__rmul__", "__imul__", "__matmul__",
    "__rmatmul__", "__imatmul__", "__truediv__", "__rtruediv__",
    "__itruediv__", "__floordiv__", "__rfloordiv__", "__ifloordiv__",
    "__mod__", "__rmod__", "__imod__", "__divmod__", "__rdivmod__",
    "__pow__", "__rpow__", "__ipow__", "__lshift__", "__rlshift__",
    "__ilshift__", "__rshift__", "__rrshift__", "__irshift__", "__and__",
    "__rand__", "__iand__", "__xor__", "__rxor__", "__ixor__", "__or__",
    "__ror__", "__ior__", "__neg__", "__pos__", "__abs__", "__invert__",
    "__lt__", "__le__", "__eq__", "__ne__", "__gt__", "__ge__", "__hash__",
    "__bool__", "__complex__", "__int__", "__float__", "__index__",
    "__round__", "__trunc__", "__floor__", "__ceil__", "__enter__",
    "__exit__", "__await__", "__aiter__", "__anext__", "__aenter__",
    "__aexit__", "__getnewargs_ex__", "__reduce__", "__getstate__",
    "__setstate__", "__repr__", "__str__", "__bytes__", "__format__"
  >>

ODOO_SPECIAL_ATTRIBUTES ==
  <<
    "_sql_constraints", "init"
  >>

ODOO_PRIVATE_ATTRIBUTES ==
  <<
    "_name", "_description", "_inherit", "_inherits", "_abstract",
    "_active_name", "_allow_sudo_commands", "_auto", "_check_company_auto",
    "_custom", "_depends", "_fold_name", "_inherits", "_module", "_order",
    "_parent_name", "_parent_store", "_rec_name", "_rec_names_search",
    "_register", "_table", "_table_query", "_transient", "_translate",
    "_sql_constraints"
  >>

ODOO_MODEL_METHODS ==
  <<
    "__ensure_xml_id", "action_archive", "action_unarchive",
    "_add_fake_fields", "_add_field", "_add_inherited_fields",
    "_add_missing_default_values", "_add_precomputed_values",
    "_add_sql_constraints", "_apply_ir_rules", "_apply_onchange_methods",
    "_as_query", "_auto_init", "browse", "_build_model",
    "_build_model_attributes", "_build_model_check_base",
    "_build_model_check_parent", "_cache", "check_access_rights",
    "check_access_rule", "_check_company", "_check_company_domain",
    "check_field_access_rights", "_check_m2m_recursion",
    "_check_parent_path", "_check_qorder", "_check_recursion",
    "_check_removed_columns", "clear_caches", "_compute_display_name",
    "_compute_field_value", "_constraint_methods", "_convert_records",
    "_convert_to_record", "_convert_to_write", "copy", "copy_data",
    "copy_multi", "copy_translations", "create", "_create", "default_get",
    "_determine_fields_to_fetch", "ensure_one", "exists", "export_data",
    "_export_rows", "_extract_records", "fetch", "_fetch_field",
    "_fetch_query", "_field_properties_to_sql", "_field_to_sql",
    "fields_get", "_filter_access_rules", "_filter_access_rules_python",
    "filtered", "filtered_domain", "_flush", "flush_model",
    "flush_recordset", "_flush_search", "_generate_order_by",
    "_get_base_lang", "get_base_url", "get_external_id", "_get_external_ids",
    "get_field_translations", "get_metadata", "_get_placeholder_filename",
    "get_property_definition", "grouped", "_has_onchange", "ids",
    "_in_cache_without", "_inherits_check", "_inherits_join_calc", "init",
    "_init_column", "_init_constraints_onchanges", "_invalidate_cache",
    "invalidate_model", "invalidate_recordset", "_is_an_ordinary_table",
    "is_transient", "load", "_load_records", "_load_records_create",
    "_load_records_write", "mapped", "_mapped_func", "modified", "_modified",
    "_modified_triggers", "name_create", "name_get", "name_search",
    "_name_search", "new", "onchange", "_onchange_methods",
    "_ondelete_methods", "_order_field_to_sql", "_order_to_sql", "_origin",
    "_parent_store_compute", "_parent_store_create", "_parent_store_update",
    "_parent_store_update_prepare", "_pop_field", "_populate",
    "_populate_dependencies", "_populate_factories", "_populate_sizes",
    "_prepare_create_values", "_prepare_setup", "read", "_read_format",
    "read_group", "_read_group", "_read_group_check_field_access_rights",
    "_read_group_empty_value", "_read_group_expand_full",
    "_read_group_fill_results", "_read_group_fill_temporal",
    "_read_group_format_result", "_read_group_format_result_properties",
    "_read_group_groupby", "_read_group_having", "_read_group_orderby",
    "_read_group_postprocess_aggregate", "_read_group_postprocess_groupby",
    "_read_group_select", "_rec_name_fallback", "_recompute_field",
    "_recompute_model", "_recompute_recordset", "_register_hook", "search",
    "_search", "search_count", "search_fetch", "search_read", "_setup_base",
    "_setup_complete", "_setup_fields", "sorted", "sudo", "_table_has_rows",
    "toggle_active", "unlink", "_unregister_hook", "update", "_update_cache",
    "update_field_translations", "_update_field_translations",
    "user_has_groups", "_valid_field_parameter", "_validate_fields",
    "_where_calc", "with_company", "with_context", "with_env",
    "with_prefetch", "with_user", "write", "_write"
  >>

----------------------------------------------------------------------------
(* Names.  A name is a string; the string operations the sorter uses       *)
(* (startswith, the order of str, the ending after a hook prefix) are      *)
(* tabulated over the names that occur in the statement catalogues.        *)

NamesInOrder ==
  <<
    "*", "Inner", "Model", "__hash__", "_check_alpha", "_check_beta",
    "_compute_alpha", "_compute_beta", "_default_alpha", "_default_beta",
    "_description", "_helper", "_label", "_name", "_onchange_alpha",
    "_onchange_beta", "_other", "_private", "_same", "_selection_alpha",
    "_selection_beta", "_sql_constraints", "a", "alpha", "b", "beta",
    "cached", "create", "fun", "init", "ping", "pong", "public", "run"
  >>

Names == {NamesInOrder[i] : i \in DOMAIN NamesInOrder}

IndexOf(seq, x) == CHOOSE i \in DOMAIN seq : seq[i] = x

\* str.__lt__ on names: the code point order.
StrLess(x, y) == IndexOf(NamesInOrder, x) < IndexOf(NamesInOrder, y)

\* str.startswith.
PrefixedBy(p) ==
  CASE
    p = "_" -> {"__hash__", "_check_alpha", "_check_beta", "_compute_alpha",
                "_compute_beta", "_default_alpha", "_default_beta",
                "_description", "_helper", "_label", "_name",
                "_onchange_alpha", "_onchange_beta", "_other", "_private",
                "_same", "_selection_alpha", "_selection_beta",
                "_sql_constraints"}
  [] p = "_default_" -> {"_default_alpha", "_default_beta"}
  [] p = "_compute_" -> {"_compute_alpha", "_compute_beta"}
  [] p = "_inverse_" -> {}
  [] p = "_search_" -> {}
  [] p = "_selection_" -> {"_selection_alpha", "_selection_beta"}
  [] p = "action_" -> {}
  [] OTHER -> {}

StartsWith(b, p) == b \in PrefixedBy(p)

\* The part of a hook name that follows its hook prefix.
Ending(b) ==
  CASE
    b \in {"_check_alpha", "_compute_alpha", "_default_alpha",
            "_onchange_alpha", "_selection_alpha"} -> "alpha"
  [] b \in {"_check_beta", "_compute_beta", "_default_beta",
            "_onchange_beta", "_selection_beta"} -> "beta"
  [] OTHER -> b

----------------------------------------------------------------------------
(* Sequences.                                                              *)

Range(seq) == {seq[i] : i \in DOMAIN seq}

\* The sequences without repetition, of length 1..n, over the set S.
RECURSIVE Arrangements(_, _)
Arrangements(S, n) ==
  IF n = 0 \/ S = {} THEN {}
  ELSE {<<x>> : x \in S}
       \cup UNION {{<<x>> \o rest : rest \in Arrangements(S \ {x}, n - 1)} :
                     x \in S}

Distinct(seq) == \A i, j \in DOMAIN seq : seq[i] = seq[j] => i = j

IsPermutation(out, inp) ==
  /\ Len(out) = Len(inp)
  /\ \A x \in Range(inp) \cup Range(out) :
       Cardinality({i \in DOMAIN out : out[i] = x})
         = Cardinality({i \in DOMAIN inp : inp[i] = x})

\* The order of the sort keys: tuples (rank, name), compared as Python
\* compares tuples; a key that is one string s stands as (0, s).
KeyLess(k1, k2) == k1[1] < k2[1] \/ (k1[1] = k2[1] /\ StrLess(k1[2], k2[2]))

\* sorted(values, key=key): a stable sort; key is the function that maps
\* each value to its sort key.
Sorted(values, key) ==
  LET n == Len(values)
      Before(j, i) == \/ KeyLess(key[values[j]], key[values[i]])
                      \/ (~KeyLess(key[values[i]], key[values[j]]) /\ j < i)
      Pos(i) == 1 + Cardinality({j \in 1..n : Before(j, i)})
  IN  [p \in 1..n |-> values[CHOOSE i \in 1..n : Pos(i) = p]]

\* _partition that leaves the values that passed among the failed ones.
_partition_keeping(values, predicate) ==
  [passed |-> SelectSeq(values, LAMBDA value : predicate[value]),
   failed |-> values]

\* _partition(values, predicate); predicate is the function that maps a
\* statement to the truth value of the test.
_partition(values, predicate) ==
  [passed |-> SelectSeq(values, LAMBDA value : predicate[value]),
   failed |-> SelectSeq(values, LAMBDA value : ~predicate[value])]

----------------------------------------------------------------------------
(* The dependency graph engine (_graphs).  A graph is the set of its edges *)
(* <<a, b>>: statement a depends on statement b, b must come before a.     *)

RECURSIVE TransitiveClosure(_)
TransitiveClosure(g) ==
  LET step == g \cup {<<p[1][1], p[2][2]>> :
                        p \in {q \in g \X g : q[1][2] = q[2][1]}}
  IN  IF step = g THEN g ELSE TransitiveClosure(step)

IsAcyclic(g) == \A e \in TransitiveClosure(g) : e[1] # e[2]

\* Two different statements on a common cycle.
SameCycle(tc, a, b) == a # b /\ <<a, b>> \in tc /\ <<b, a>> \in tc

\* replace_cycles(graph, key=sort_key_from_iter(order)): inside every
\* strongly connected component of two or more statements the edges are
\* replaced by a chain that follows `order`.
replace_cycles(g, order) ==
  LET tc == TransitiveClosure(g)
      kept == {e \in g : ~SameCycle(tc, e[1], e[2])}
      chain == {<<order[q[2]], order[q[1]]>> : q \in
                  {p \in (DOMAIN order) \X (DOMAIN order) :
                     /\ p[1] < p[2]
                     /\ SameCycle(tc, order[p[1]], order[p[2]])
                     /\ \A k \in (p[1] + 1)..(p[2] - 1) :
                          ~SameCycle(tc, order[p[1]], order[k])}}
  IN  kept \cup chain

\* topological_sort(target, graph=g): Kahn's algorithm; among the ready
\* statements the one that comes first in `target` is taken.
RECURSIVE Kahn(_, _, _)
Kahn(remaining, result, g) ==
  LET emitted == Range(result)
      ready == {i \in DOMAIN remaining :
                  \A e \in g : e[1] = remaining[i] => e[2] \in emitted}
  IN  IF ready = {} THEN result
      ELSE LET i == CHOOSE i \in ready : \A j \in ready : i <= j
           IN  Kahn(SubSeq(remaining, 1, i - 1)
                      \o SubSeq(remaining, i + 1, Len(remaining)),
                    Append(result, remaining[i]), g)

topological_sort(target, g) == Kahn(target, <<>>, g)

is_topologically_sorted(target, g) ==
  \A e \in g :
    \E i, j \in DOMAIN target : target[i] = e[2] /\ target[j] = e[1] /\ i < j

----------------------------------------------------------------------------
(* Texts and statements (_parsing).  The text of a statement is its source *)
(* line `src`; the text of a class also holds the texts of its body and    *)
(* whether the layout between them is still the one of the source file or  *)
(* the one produced by joining.  A Statement carries its text and what the *)
(* parser derives from it.                                                 *)

Text(src, body) == [src |-> src, layout |-> "source", body |-> body]

Decorator(call, func, attr) == [call |-> call, func |-> func, attr |-> attr]

Syntax(src, node, value, bindings, decorators, fields_dot, hard, soft) ==
  [src |-> src, node |-> node, value |-> value, bindings |-> bindings,
   decorators |-> decorators, fields_dot |-> fields_dot,
   hard |-> hard, soft |-> soft]

\* What the parser derives from each source line of the catalogues.
Grammar ==
  { \* class members
    Syntax("alpha = fields.Char(default=_helper)", "Assign", "",
           <<"alpha">>, <<>>, TRUE, {"_helper"}, {}),
    Syntax("beta = fields.Char()", "Assign", "",
           <<"beta">>, <<>>, TRUE, {}, {}),
    Syntax("@api.depends('beta') def _compute_alpha(self): pass",
           "FunctionDef", "", <<"_compute_alpha">>,
           <<Decorator(TRUE, "Attribute", "depends")>>, FALSE, {}, {}),
    Syntax("def _compute_beta(self): self._helper()", "FunctionDef", "",
           <<"_compute_beta">>, <<>>, FALSE, {}, {"_helper"}),
    Syntax("def _helper(self): self._compute_beta()", "FunctionDef", "",
           <<"_helper">>, <<>>, FALSE, {}, {"_compute_beta"}),
    Syntax("def run(self): self._helper(); self.alpha", "FunctionDef", "",
           <<"run">>, <<>>, FALSE, {}, {"_helper", "alpha"}),
    Syntax("'''doc'''", "Expr", "str", <<>>, <<>>, FALSE, {}, {}),
    Syntax("_name = 'm'", "Assign", "", <<"_name">>, <<>>, FALSE, {}, {}),
    Syntax("def _default_alpha(self): pass", "FunctionDef", "",
           <<"_default_alpha">>, <<>>, FALSE, {}, {}),
    Syntax("def _default_beta(self): pass", "FunctionDef", "",
           <<"_default_beta">>, <<>>, FALSE, {}, {}),
    Syntax("class Inner:", "ClassDef", "", <<"Inner">>, <<>>, FALSE, {}, {}),
    Syntax("@cache(1) def cached(self): pass", "FunctionDef", "",
           <<"cached">>, <<Decorator(TRUE, "Name", "")>>, FALSE, {}, {}),
    \* class members that the naming conventions place
    Syntax("_sql_constraints = []", "Assign", "",
           <<"_sql_constraints">>, <<>>, FALSE, {}, {}),
    Syntax("def init(self): pass", "FunctionDef", "",
           <<"init">>, <<>>, FALSE, {}, {}),
    Syntax("__hash__ = None", "Assign", "", <<"__hash__">>, <<>>, FALSE, {}, {}),
    Syntax("def create(self, vals): pass", "FunctionDef", "",
           <<"create">>, <<>>, FALSE, {}, {}),
    Syntax("_label = _name = 'm'", "Assign", "",
           <<"_label", "_name">>, <<>>, FALSE, {}, {}),
    Syntax("_description = 'd'", "Assign", "",
           <<"_description">>, <<>>, FALSE, {}, {}),
    \* hooks of the fields
    Syntax("def _selection_alpha(self): pass", "FunctionDef", "",
           <<"_selection_alpha">>, <<>>, FALSE, {}, {}),
    Syntax("def _selection_beta(self): pass", "FunctionDef", "",
           <<"_selection_beta">>, <<>>, FALSE, {}, {}),
    Syntax("@api.constrains('alpha') def _check_alpha(self): pass",
           "FunctionDef", "", <<"_check_alpha">>,
           <<Decorator(TRUE, "Attribute", "constrains")>>, FALSE, {}, {}),
    Syntax("@api.constrains('beta') def _check_beta(self): pass",
           "FunctionDef", "", <<"_check_beta">>,
           <<Decorator(TRUE, "Attribute", "constrains")>>, FALSE, {}, {}),
    Syntax("@api.onchange('alpha') def _onchange_alpha(self): pass",
           "FunctionDef", "", <<"_onchange_alpha">>,
           <<Decorator(TRUE, "Attribute", "onchange")>>, FALSE, {}, {}),
    Syntax("@api.onchange('beta') def _onchange_beta(self): pass",
           "FunctionDef", "", <<"_onchange_beta">>,
           <<Decorator(TRUE, "Attribute", "onchange")>>, FALSE, {}, {}),
    \* module level
    Syntax("def public(): return _private()", "FunctionDef", "",
           <<"public">>, <<>>, FALSE, {}, {"_private"}),
    Syntax("def _private(): pass", "FunctionDef", "",
           <<"_private">>, <<>>, FALSE, {}, {}),
    Syntax("def ping(): pong()", "FunctionDef", "",
           <<"ping">>, <<>>, FALSE, {}, {"pong"}),
    Syntax("def pong(): ping()", "FunctionDef", "",
           <<"pong">>, <<>>, FALSE, {}, {"ping"}),
    Syntax("a = b", "Assign", "", <<"a">>, <<>>, FALSE, {"b"}, {}),
    Syntax("b = 4", "Assign", "", <<"b">>, <<>>, FALSE, {}, {}),
    Syntax("from module import *", "ImportFrom", "",
           <<"*">>, <<>>, FALSE, {}, {}),
    Syntax("def fun(): return _other() + _same()", "FunctionDef", "",
           <<"fun">>, <<>>, FALSE, {}, {"_other", "_same"}),
    Syntax("class Model:", "ClassDef", "", <<"Model">>, <<>>, FALSE, {}, {})
  }

\* The Statement the parser yields for a text.
Statement(t) ==
  LET syntax == CHOOSE s \in Grammar : s.src = t.src
  IN  [text |-> t, node |-> syntax.node, value |-> syntax.value,
       bindings |-> syntax.bindings, decorators |-> syntax.decorators,
       fields_dot |-> syntax.fields_dot,
       hard |-> syntax.hard, soft |-> syntax.soft]

\* split_class(statement): the head text and the statements of the body.
split_class(statement) ==
  [head_text |-> statement.text.src,
   body |-> [i \in DOMAIN statement.text.body |->
               Statement(statement.text.body[i])]]

Binds(statement, name) == name \in Range(statement.bindings)

----------------------------------------------------------------------------
(* Dependencies between the statements of one scope (_dependencies).       *)

\* Load-time edges of a class body.
class_statements_initialisation_graph(stmts) ==
  {e \in Range(stmts) \X Range(stmts) :
     e[1] # e[2] /\ \E name \in e[1].hard : Binds(e[2], name)}

\* Run-time edges of a class body; with ignore_public only the references
\* to names that start with an underscore count.
class_statements_runtime_graph(stmts, ignore_public) ==
  {e \in Range(stmts) \X Range(stmts) :
     /\ e[1] # e[2]
     /\ \E name \in e[1].soft :
          /\ Binds(e[2], name)
          /\ ignore_public => StartsWith(name, "_")}

\* At module scope every reference is an edge.
ModuleEdges(stmts) ==
  {e \in Range(stmts) \X Range(stmts) :
     e[1] # e[2] /\ \E name \in e[1].hard \cup e[1].soft : Binds(e[2], name)}

----------------------------------------------------------------------------
(* Membership tests of the role buckets.                                   *)

sys_maxsize == 2147483647   \* stands for sys.maxsize: above every index

IsAssignment(statement) == statement.node \in {"Assign", "AnnAssign", "AugAssign"}

\* statement.bindings() as the set that any() and all() range over.
Bindings(statement) == Range(statement.bindings)

_is_string(statement) == statement.node = "Expr" /\ statement.value = "str"

_is_special_property(statement) ==
  \E binding \in Bindings(statement) : binding \in Range(SPECIAL_PROPERTIES)

_is_odoo_special_attribute(statement) ==
  \E binding \in Bindings(statement) : binding \in Range(ODOO_SPECIAL_ATTRIBUTES)

_is_lifecycle_operation(statement) ==
  \E binding \in Bindings(statement) : binding \in Range(LIFECYCLE_OPERATIONS)

_is_regular_operation(statement) ==
  \E binding \in Bindings(statement) : binding \in Range(REGULAR_OPERATIONS)

_is_odoo_private_attribute(statement) ==
  /\ IsAssignment(statement)
  /\ \E binding \in Bindings(statement) : binding \in Range(ODOO_PRIVATE_ATTRIBUTES)

_is_private_attribute(statement) ==
  /\ IsAssignment(statement)
  /\ \A binding \in Bindings(statement) :
       StartsWith(binding, "_") /\ binding \notin Range(ODOO_PRIVATE_ATTRIBUTES)

_is_field(statement) ==
  /\ IsAssignment(statement)
  /\ \A binding \in Bindings(statement) : ~StartsWith(binding, "_")
  /\ statement.fields_dot

_is_property(statement) == IsAssignment(statement)

_is_default_method(statement) ==
  /\ statement.node = "FunctionDef"
  /\ \A binding \in Bindings(statement) :
       binding = "default_get" \/ StartsWith(binding, "_default_")

\* any(isinstance(dec, ast.Call) and dec.func.attr == attr for dec in
\* decorator_list): "true", "false", or "raise" when a call decorator whose
\* callee has no attribute `attr` is reached before a match.
DecoratorScan(statement, attr) ==
  LET decs == statement.decorators
      stops == {i \in DOMAIN decs :
                  decs[i].call /\ (decs[i].func # "Attribute" \/ decs[i].attr = attr)}
  IN  IF stops = {} THEN "false"
      ELSE LET i == CHOOSE i \in stops : \A j \in stops : i <= j
           IN  IF decs[i].func # "Attribute" THEN "raise" ELSE "true"

_is_compute_method(statement) ==
  /\ statement.node = "FunctionDef"
  /\ \/ DecoratorScan(statement, "depends") = "true"
     \/ \A binding \in Bindings(statement) :
          \/ StartsWith(binding, "_compute_")
          \/ StartsWith(binding, "_inverse_")
          \/ StartsWith(binding, "_search_")

_is_selection_method(statement) ==
  /\ statement.node = "FunctionDef"
  /\ \A binding \in Bindings(statement) : StartsWith(binding, "_selection_")

_is_constraint_method(statement) ==
  /\ statement.node = "FunctionDef"
  /\ DecoratorScan(statement, "constrains") = "true"

_is_onchange_method(statement) ==
  /\ statement.node = "FunctionDef"
  /\ DecoratorScan(statement, "onchange") = "true"

\* The membership test raises AttributeError on the statement.
DecoratorRaises(statement, attr) ==
  statement.node = "FunctionDef" /\ DecoratorScan(statement, attr) = "raise"

_is_orm_override(statement) ==
  /\ statement.node = "FunctionDef"
  /\ \E binding \in Bindings(statement) : binding \in Range(ODOO_MODEL_METHODS)

_is_action(statement) ==
  /\ statement.node = "FunctionDef"
  /\ \E binding \in Bindings(statement) : StartsWith(binding, "action_")

_is_class(statement) == statement.node = "ClassDef"

----------------------------------------------------------------------------
(* Sort keys.                                                              *)

\* sort_key_from_iter(values)(value): the index of value in values.
sort_key_from_iter(values, value) ==
  (CHOOSE i \in DOMAIN values :
     values[i] = value /\ \A j \in DOMAIN values : values[j] = value => j <= i) - 1

\* sort_key_from_ending(statements, fields)(binding): the index of the
\* field the hook name ends with.
sort_key_from_ending(fields, binding) ==
  sort_key_from_iter(fields, Ending(binding))

Min(S) == CHOOSE x \in S : \A y \in S : x <= y

\* _safe_binding_key for sort_key_from_iter(values): the key of every
\* name, KeyError turned into sys.maxsize.
ListKey(values) ==
  [binding \in Names |->
     IF binding \in Range(values) THEN sort_key_from_iter(values, binding)
     ELSE sys_maxsize]

\* _safe_binding_key for sort_key_from_ending(statements, fields).
EndingKey(fields) ==
  [binding \in Names |->
     IF Ending(binding) \in Range(fields) THEN sort_key_from_ending(fields, binding)
     ELSE sys_maxsize]

\* _statement_binding_sort_key that ranks a statement by its first binding.
_statement_binding_sort_key_first(binding_key, statement) ==
  << binding_key[statement.bindings[1]], statement.bindings[1] >>

\* _statement_binding_sort_key(binding_key)(statement); binding_key is the
\* function _safe_binding_key.
_statement_binding_sort_key(binding_key, statement) ==
  << Min({binding_key[binding] : binding \in Bindings(statement)}),
     statement.bindings[1] >>

SortedByList(stmts, values) ==
  Sorted(stmts, [statement \in Range(stmts) |->
                   _statement_binding_sort_key(ListKey(values), statement)])

\* SortedByEnding that keeps the statements as they come.
SortedByEnding_kept(stmts, fields) == stmts

SortedByEnding(stmts, fields) ==
  Sorted(stmts, [statement \in Range(stmts) |->
                   _statement_binding_sort_key(EndingKey(fields), statement)])

----------------------------------------------------------------------------
(* _statement_text_sorted_class, stage by stage.                           *)

\* Split up the statements into the role buckets; each membership test is
\* handed to _partition as the function it is on the statements of the body.
Buckets(unsorted) ==
  LET lead == _is_string(unsorted[1])
      rest == IF lead THEN Tail(unsorted) ELSE unsorted
      p01 == _partition(rest,
               [statement \in Range(unsorted) |-> _is_special_property(statement)])
      p02 == _partition(p01.failed,
               [statement \in Range(unsorted) |-> _is_lifecycle_operation(statement)])
      p03 == _partition(p02.failed,
               [statement \in Range(unsorted) |-> _is_regular_operation(statement)])
      p04 == _partition(p03.failed,
               [statement \in Range(unsorted) |-> _is_class(statement)])
      p05 == _partition(p04.failed,
               [statement \in Range(unsorted) |-> _is_odoo_special_attribute(statement)])
      p06 == _partition(p05.failed,
               [statement \in Range(unsorted) |-> _is_odoo_private_attribute(statement)])
      p07 == _partition(p06.failed,
               [statement \in Range(unsorted) |-> _is_private_attribute(statement)])
      p08 == _partition(p07.failed,
               [statement \in Range(unsorted) |-> _is_orm_override(statement)])
      p09 == _partition(p08.failed,
               [statement \in Range(unsorted) |-> _is_default_method(statement)])
      p10 == _partition(p09.failed,
               [statement \in Range(unsorted) |-> _is_field(statement)])
      p11 == _partition(p10.failed,
               [statement \in Range(unsorted) |-> _is_compute_method(statement)])
      p12 == _partition(p11.failed,
               [statement \in Range(unsorted) |-> _is_selection_method(statement)])
      p13 == _partition(p12.failed,
               [statement \in Range(unsorted) |-> _is_constraint_method(statement)])
      p14 == _partition(p13.failed,
               [statement \in Range(unsorted) |-> _is_onchange_method(statement)])
      p15 == _partition(p14.failed,
               [statement \in Range(unsorted) |-> _is_action(statement)])
      p16 == _partition(p15.failed,
               [statement \in Range(unsorted) |-> _is_property(statement)])
  IN  [raised |->
         IF \/ \E s \in Range(p10.failed) : DecoratorRaises(s, "depends")
            \/ \E s \in Range(p12.failed) : DecoratorRaises(s, "constrains")
            \/ \E s \in Range(p13.failed) : DecoratorRaises(s, "onchange")
         THEN "AttributeError" ELSE "",
       docstrings |-> IF lead THEN SubSeq(unsorted, 1, 1) ELSE <<>>,
       special_properties |-> p01.passed,
       lifecycle_operations |-> p02.passed,
       regular_operations |-> p03.passed,
       inner_classes |-> p04.passed,
       odoo_special_attributes |-> p05.passed,
       odoo_private_attributes |-> p06.passed,
       other_private_attributes |-> p07.passed,
       orm_overrides |-> p08.passed,
       default_methods |-> p09.passed,
       odoo_fields |-> p10.passed,
       compute_methods |-> p11.passed,
       selection_methods |-> p12.passed,
       constraint_methods |-> p13.passed,
       onchange_methods |-> p14.passed,
       actions |-> p15.passed,
       properties |-> p16.passed,
       methods |-> p16.failed]

\* The groups in the order in which the statements are split into them.
SplitOrder ==
  << "docstrings", "special_properties", "lifecycle_operations",
     "regular_operations", "inner_classes", "odoo_special_attributes",
     "odoo_private_attributes", "other_private_attributes", "orm_overrides",
     "default_methods", "odoo_fields", "compute_methods", "selection_methods",
     "constraint_methods", "onchange_methods", "actions", "properties",
     "methods" >>

\* The membership test of each group; `leading`: the statement is the first
\* of the body.  The regular properties are the assignments that are no
\* field declarations, the methods are what remains.
Satisfies(group, statement, leading) ==
  CASE group = "docstrings" -> leading /\ _is_string(statement)
    [] group = "special_properties" -> _is_special_property(statement)
    [] group = "lifecycle_operations" -> _is_lifecycle_operation(statement)
    [] group = "regular_operations" -> _is_regular_operation(statement)
    [] group = "inner_classes" -> _is_class(statement)
    [] group = "odoo_special_attributes" -> _is_odoo_special_attribute(statement)
    [] group = "odoo_private_attributes" -> _is_odoo_private_attribute(statement)
    [] group = "other_private_attributes" -> _is_private_attribute(statement)
    [] group = "orm_overrides" -> _is_orm_override(statement)
    [] group = "default_methods" -> _is_default_method(statement)
    [] group = "odoo_fields" -> _is_field(statement)
    [] group = "compute_methods" -> _is_compute_method(statement)
    [] group = "selection_methods" -> _is_selection_method(statement)
    [] group = "constraint_methods" -> _is_constraint_method(statement)
    [] group = "onchange_methods" -> _is_onchange_method(statement)
    [] group = "actions" -> _is_action(statement)
    [] group = "properties" -> _is_property(statement) /\ ~_is_field(statement)
    [] group = "methods" -> TRUE

\* FieldList that is never sorted.
FieldList_declared(b, sort_fields) ==
  [i \in DOMAIN b.odoo_fields |-> b.odoo_fields[i].bindings[1]]

\* fields: the first bindings of the field declarations.
FieldList(b, sort_fields) ==
  LET fields == [i \in DOMAIN b.odoo_fields |-> b.odoo_fields[i].bindings[1]]
  IN  IF sort_fields
      THEN Sorted(fields, [field \in Range(fields) |-> <<0, field>>])
      ELSE fields

\* The groups in the order in which they are joined back together.
JoinOrder ==
  << "docstrings", "special_properties", "inner_classes",
     "odoo_private_attributes", "other_private_attributes", "default_methods",
     "properties", "odoo_fields", "odoo_special_attributes",
     "lifecycle_operations", "compute_methods", "selection_methods",
     "constraint_methods", "onchange_methods", "orm_overrides", "actions",
     "methods", "regular_operations" >>

\* Joined that joins the groups from the last to the first.
Joined_backwards(b, sort_fields) ==
  b.regular_operations \o b.methods \o b.actions \o b.orm_overrides
  \o b.onchange_methods \o b.constraint_methods \o b.selection_methods
  \o b.compute_methods \o b.lifecycle_operations
  \o b.odoo_special_attributes \o b.odoo_fields \o b.properties
  \o b.default_methods \o b.other_private_attributes
  \o b.odoo_private_attributes \o b.inner_classes \o b.special_properties
  \o b.docstrings

\* Join the groups back together in the order of the policy.
Joined(b, sort_fields) ==
  LET fields == FieldList(b, sort_fields)
  IN  b.docstrings
      \o SortedByList(b.special_properties, SPECIAL_PROPERTIES)
      \o b.inner_classes
      \o SortedByList(b.odoo_private_attributes, ODOO_PRIVATE_ATTRIBUTES)
      \o b.other_private_attributes
      \o b.default_methods
      \o b.properties
      \o (IF sort_fields
          THEN Sorted(b.odoo_fields,
                      [field \in Range(b.odoo_fields) |-> <<0, field.bindings[1]>>])
          ELSE b.odoo_fields)
      \o SortedByList(b.odoo_special_attributes, ODOO_SPECIAL_ATTRIBUTES)
      \o SortedByList(b.lifecycle_operations, LIFECYCLE_OPERATIONS)
      \o SortedByEnding(b.compute_methods, fields)
      \o SortedByEnding(b.selection_methods, fields)
      \o SortedByEnding(b.constraint_methods, fields)
      \o SortedByEnding(b.onchange_methods, fields)
      \o SortedByList(b.orm_overrides, ODOO_MODEL_METHODS)
      \o b.actions
      \o b.methods
      \o SortedByList(b.regular_operations, REGULAR_OPERATIONS)

\* HardSorted without the repair: the joined order is kept as it is.
HardSorted_skipped(joined, initialisation_graph) == joined

\* Fix any hard dependencies.
HardSorted(joined, initialisation_graph) ==
  topological_sort(joined, initialisation_graph)

\* RuntimeGraph that also takes the references to public names.
RuntimeGraph_public(sorted, initialisation_graph) ==
  replace_cycles(
    class_statements_runtime_graph(sorted, FALSE) \cup initialisation_graph,
    sorted)

\* The runtime graph, updated with the hard edges, its cycles replaced.
RuntimeGraph(sorted, initialisation_graph) ==
  replace_cycles(
    class_statements_runtime_graph(sorted, TRUE) \cup initialisation_graph,
    sorted)

\* Resolve the soft dependencies of the hard-sorted body.
RuntimeSorted(sorted, initialisation_graph) ==
  topological_sort(sorted, RuntimeGraph(sorted, initialisation_graph))

\* The order of the body that the class-level sorter ends with.
FinalOrder(unsorted, sort_fields) ==
  RuntimeSorted(
    HardSorted(Joined(Buckets(unsorted), sort_fields),
               class_statements_initialisation_graph(unsorted)),
    class_statements_initialisation_graph(unsorted))

\* The exception that escapes the bucket stages: the AttributeError of a
\* membership test, or the TypeError of sorted(default_methods, key=...),
\* whose keys are function objects that cannot be compared.
StageRaises(b) ==
  IF b.raised # "" THEN b.raised
  ELSE IF Len(b.default_methods) >= 2 THEN "TypeError" ELSE ""

ClassRaises(unsorted) == StageRaises(Buckets(unsorted))

\* ClassText that emits the head and the joined body also when the order
\* did not change.
ClassText_rejoined(statement, raised, unchanged, parts) ==
  IF raised # "" THEN [raised |-> raised, text |-> statement.text]
  ELSE IF \E i \in DOMAIN parts : parts[i].raised # ""
  THEN [raised |-> "AttributeError", text |-> statement.text]
  ELSE [raised |-> "",
        text |-> [src |-> split_class(statement).head_text, layout |-> "joined",
                  body |-> [i \in DOMAIN parts |-> parts[i].text]]]

\* The value _statement_text_sorted_class ends with: the exception that
\* escapes, the text of the statement when the order did not change, or
\* the head and the texts of the body in the final order.
ClassText(statement, raised, unchanged, parts) ==
  IF raised # "" THEN [raised |-> raised, text |-> statement.text]
  ELSE IF unchanged THEN [raised |-> "", text |-> statement.text]
  ELSE IF \E i \in DOMAIN parts : parts[i].raised # ""
  THEN [raised |-> parts[CHOOSE i \in DOMAIN parts :
                           /\ parts[i].raised # ""
                           /\ \A j \in 1..(i - 1) : parts[j].raised = ""].raised,
        text |-> statement.text]
  ELSE [raised |-> "",
        text |-> [src |-> split_class(statement).head_text, layout |-> "joined",
                  body |-> [i \in DOMAIN parts |-> parts[i].text]]]

RECURSIVE statement_text_sorted(_, _)

\* The value for a body `unsorted` that the stages leave as `final`:
\* statement_text_sorted is called for every statement of the sorted body.
ClassTextOf(statement, unsorted, final, sort_fields) ==
  ClassText(statement, ClassRaises(unsorted), final = unsorted,
            [i \in DOMAIN final |-> statement_text_sorted(final[i], sort_fields)])

_statement_text_sorted_class(statement, sort_fields) ==
  ClassTextOf(statement, split_class(statement).body,
              FinalOrder(split_class(statement).body, sort_fields),
              sort_fields)

statement_text_sorted(statement, sort_fields) ==
  IF statement.node = "ClassDef"
  THEN _statement_text_sorted_class(statement, sort_fields)
  ELSE [raised |-> "", text |-> statement.text]

----------------------------------------------------------------------------
(* Source values: bytes or text.  A value is its lines; a line is an item  *)
(* (the text of a statement, a comment, or a line that does not parse) and *)
(* the terminator that follows it ("" when the last line has none).  Bytes *)
(* carry the encoding their coding declaration names and whether they      *)
(* decode under it.                                                        *)

Terminators == {"\r\n", "\r", "\n"}

Comment == Text("# comment", <<>>)
Invalid == Text("a =", <<>>)

Str(lines) == [type |-> "str", codec |-> "", valid |-> TRUE, lines |-> lines]

Bytes(codec, valid, lines) ==
  [type |-> "bytes", codec |-> codec, valid |-> valid, lines |-> lines]

KnownEncodings == {"utf-8", "latin-1", "ascii"}

\* detect_encoding(bytes): the declared encoding, or UnknownEncodingError.
detect_encoding(value) == value.codec

\* bytes.decode(encoding) and str.encode(encoding)
decode(value) == Str(value.lines)

encode(value, codec) == Bytes(codec, TRUE, value.lines)

NumberOf(lines, term) == Cardinality({i \in DOMAIN lines : lines[i].term = term})

\* detect_newline(text): the dominant line terminator, "\n" when none.
detect_newline(value) ==
  LET lines == value.lines
      Dominates(t) == \A u \in Terminators : NumberOf(lines, u) <= NumberOf(lines, t)
  IN  IF \A t \in Terminators : NumberOf(lines, t) = 0 THEN "\n"
      ELSE IF Dominates("\r\n") THEN "\r\n"
      ELSE IF Dominates("\r") THEN "\r"
      ELSE "\n"

\* re.sub of every terminator by `term`.
Reterminated(lines, term) ==
  [i \in DOMAIN lines |->
     [lines[i] EXCEPT !.term = IF @ = "" THEN "" ELSE term]]

normalize_newlines(value) == [value EXCEPT !.lines = Reterminated(@, "\n")]

\* JoinedOutput that joins all texts but the first.
JoinedOutput_dropping(parts) ==
  Str([i \in DOMAIN Tail(parts) |-> [item |-> Tail(parts)[i], term |-> "\n"]])

\* "\n".join(texts), and a final "\n" when the result is not empty.
JoinedOutput(parts) ==
  Str([i \in DOMAIN parts |-> [item |-> parts[i], term |-> "\n"]])

----------------------------------------------------------------------------
(* Parsing the module (_parsing.parse).                                    *)

BadLines(value) == {i \in DOMAIN value.lines : value.lines[i].item = Invalid}

\* The ParseError of a text that does not parse: at the first bad line.
ParseErrorOf(value) ==
  [message |-> "invalid syntax",
   lineno |-> CHOOSE i \in BadLines(value) : \A j \in BadLines(value) : i <= j,
   col_offset |-> 4]

\* parse(text): the statements of the module, in order, each with its line.
parse(value) ==
  LET stmts == SelectSeq(value.lines, LAMBDA line : line.item # Comment)
  IN  [i \in DOMAIN stmts |-> Statement(stmts[i].item)]

LineOf(value, statement) ==
  CHOOSE i \in DOMAIN value.lines : value.lines[i].item = statement.text

----------------------------------------------------------------------------
(* Error policies.  A policy is "ignore", "raise", or a callable of the    *)
(* caller ("callable": it records the call and returns).  A call passes    *)
(* positional arguments `args` and keyword arguments `kwargs`.             *)

Policies == {"ignore", "raise", "callable"}

NoError == [type |-> "none"]

_on_unknown_encoding_raise(payload) ==
  [type |-> "UnknownEncodingError", message |-> payload.message,
   encoding |-> payload.encoding]

_on_decoding_error_raise(payload) ==
  [type |-> "DecodingError", message |-> payload.message]

\* _on_parse_error_raise with the line and the column interchanged.
_on_parse_error_raise_swapped(payload) ==
  [type |-> "ParseError", message |-> payload.message,
   lineno |-> payload.col_offset, col_offset |-> payload.lineno]

_on_parse_error_raise(payload) ==
  [type |-> "ParseError", message |-> payload.message,
   lineno |-> payload.lineno, col_offset |-> payload.col_offset]

_on_unresolved_raise(payload) ==
  [type |-> "ResolutionError", message |-> payload.message,
   name |-> payload.name, lineno |-> payload.lineno,
   col_offset |-> payload.col_offset]

_on_wildcard_import_raise(payload) ==
  [type |-> "WildcardImportError",
   message |-> "can't reliably determine dependencies on * import",
   lineno |-> payload.lineno, col_offset |-> payload.col_offset]

Call(policy, args, kwargs) == [policy |-> policy, args |-> args, kwargs |-> kwargs]

\* The parameters of a handler as the call binds them: the handlers that
\* take a message declare it first, so a positional argument binds to it.
Received(call) ==
  IF call.args = <<>> THEN call.kwargs
  ELSE [message |-> call.args[1]] @@ call.kwargs

\* What calling the interpreted policy raises, if anything.
Invoke(call, action) ==
  IF action # "raise" THEN NoError
  ELSE CASE call.policy = "on_unknown_encoding_error" ->
              _on_unknown_encoding_raise(Received(call))
         [] call.policy = "on_decoding_error" ->
              _on_decoding_error_raise(Received(call))
         [] call.policy = "on_parse_error" ->
              _on_parse_error_raise(Received(call))
         [] call.policy = "on_unresolved" ->
              _on_unresolved_raise(Received(call))
         [] call.policy = "on_wildcard_import" ->
              _on_wildcard_import_raise(Received(call))

----------------------------------------------------------------------------
(* module_statements_graph (_dependencies).                                *)

\* Where a reference stands in its line.
Column(name) ==
  CASE name = "_other" -> 11
    [] name = "_same" -> 22
    [] OTHER -> 0

Unresolved(stmts, statement) ==
  {name \in statement.hard \cup statement.soft :
     \A s \in Range(stmts) : ~Binds(s, name)}

\* The elements of a set of names as a sequence, by column.
RECURSIVE ByColumn(_)
ByColumn(names) ==
  IF names = {} THEN <<>>
  ELSE LET n == CHOOSE n \in names : \A m \in names : Column(n) <= Column(m)
       IN  <<n>> \o ByColumn(names \ {n})

\* The policy calls that the analysis of one statement asks for.
ProblemsOf(value, stmts, statement) ==
  LET lineno == LineOf(value, statement)
      names == ByColumn(Unresolved(stmts, statement))
  IN  (IF Binds(statement, "*")
       THEN << Call("on_wildcard_import", <<>>,
                    [lineno |-> lineno, col_offset |-> 0]) >>
       ELSE <<>>)
      \o [i \in DOMAIN names |->
            Call("on_unresolved", <<>>,
                 [message |-> <<"could not resolve", names[i]>>,
                  name |-> names[i], lineno |-> lineno,
                  col_offset |-> Column(names[i])])]

RECURSIVE Problems(_, _, _)
Problems(value, stmts, i) ==
  IF i > Len(stmts) THEN <<>>
  ELSE ProblemsOf(value, stmts, stmts[i]) \o Problems(value, stmts, i + 1)

\* The calls made until one raises: the prefix up to the first raising call.
CallsMade(problems, opts) ==
  LET raising == {i \in DOMAIN problems : opts[problems[i].policy] = "raise"}
  IN  IF raising = {} THEN problems
      ELSE SubSeq(problems, 1, CHOOSE i \in raising : \A j \in raising : i <= j)

\* module_statements_graph: the calls it makes, what it raises, and the
\* graph it returns (none when a problem was reported).
module_statements_graph(value, stmts, opts) ==
  LET problems == Problems(value, stmts, 1)
      made == CallsMade(problems, opts)
      last == made[Len(made)]
  IN  [calls |-> made,
       error |-> IF made = <<>> THEN NoError
                 ELSE Invoke(last, opts[last.policy]),
       none |-> made # <<>>,
       graph |-> ModuleEdges(stmts)]

----------------------------------------------------------------------------
(* The inputs.                                                             *)

Line(src) == Text(src, <<>>)

\* Members of a model class: fields, their hooks, helpers.
MemberTexts ==
  { Line("alpha = fields.Char(default=_helper)"),
    Line("beta = fields.Char()"),
    Line("@api.depends('beta') def _compute_alpha(self): pass"),
    Line("def _compute_beta(self): self._helper()"),
    Line("def _helper(self): self._compute_beta()"),
    Line("def run(self): self._helper(); self.alpha") }

\* Other class furniture: docstring, private attribute, default hooks, an
\* inner class whose own body is out of order, a decorated function.
FurnitureTexts ==
  { Line("'''doc'''"),
    Line("_name = 'm'"),
    Line("def _default_alpha(self): pass"),
    Line("def _default_beta(self): pass"),
    Text("class Inner:",
         << Line("def run(self): self._helper(); self.alpha"),
            Line("def _helper(self): self._compute_beta()") >>),
    Line("@cache(1) def cached(self): pass") }

\* Members that only the naming conventions place: names of two closed
\* lists, an assignment with two targets, an override of the framework.
ConventionTexts ==
  { Line("_sql_constraints = []"),
    Line("def init(self): pass"),
    Line("__hash__ = None"),
    Line("def create(self, vals): pass"),
    Line("_label = _name = 'm'"),
    Line("_description = 'd'"),
    Line("beta = fields.Char()") }

\* Hooks of the two fields: selection, constraint and onchange methods.
HookTexts ==
  { Line("def _selection_alpha(self): pass"),
    Line("def _selection_beta(self): pass"),
    Line("@api.constrains('alpha') def _check_alpha(self): pass"),
    Line("@api.constrains('beta') def _check_beta(self): pass"),
    Line("@api.onchange('alpha') def _onchange_alpha(self): pass"),
    Line("@api.onchange('beta') def _onchange_beta(self): pass") }

FieldTexts ==
  { Line("alpha = fields.Char(default=_helper)"),
    Line("beta = fields.Char()") }

\* The bodies that declare both fields and some of their hooks.
HookBodies ==
  {body \in Arrangements(HookTexts \cup FieldTexts, MaxMembers) :
     FieldTexts \subseteq Range(body)}

ClassBodies ==
  {body \in Arrangements(MemberTexts, MaxBody)
             \cup Arrangements(FurnitureTexts, MaxBody)
             \cup Arrangements(ConventionTexts, MaxMembers)
             \cup HookBodies :
     IsAcyclic(class_statements_initialisation_graph(
                 [i \in DOMAIN body |-> Statement(body[i])]))}

\* Top-level statements of a module.
ModuleTexts ==
  { Line("def public(): return _private()"),
    Line("def _private(): pass"),
    Line("def ping(): pong()"),
    Line("def pong(): ping()"),
    Line("a = b"),
    Line("b = 4"),
    Text("class Model:",
         << Line("def run(self): self._helper(); self.alpha"),
            Line("def _helper(self): self._compute_beta()") >>) }

\* Lines of the files that exercise decoding, newlines and the policies.
FileItems ==
  { Line("a = b"), Line("b = 4"), Invalid, Comment,
    Line("from module import *"),
    Line("def fun(): return _other() + _same()") }

\* Comments stand in files without statements only; a wildcard import
\* does not stand with unresolved references.
FileContents ==
  {items \in Arrangements(FileItems, MaxLines) \cup {<<>>} :
     /\ (Comment \in Range(items)) => Range(items) = {Comment}
     /\ ~(/\ Line("from module import *") \in Range(items)
          /\ Line("def fun(): return _other() + _same()") \in Range(items))}

\* The lines of a file: all lines but the last end with `style`, the last
\* line ends with `last` ("": no terminator at the end of the file).
Lines(items, style, last) ==
  [i \in DOMAIN items |->
     [item |-> items[i], term |-> IF i = Len(items) THEN last ELSE style]]

Uniform(action) ==
  [on_unknown_encoding_error |-> action, on_decoding_error |-> action,
   on_parse_error |-> action, on_unresolved |-> action,
   on_wildcard_import |-> action]

PolicySets ==
  {Uniform(action) : action \in Policies}
  \cup {[on_unknown_encoding_error |-> "ignore", on_decoding_error |-> "callable",
         on_parse_error |-> "raise", on_unresolved |-> "ignore",
         on_wildcard_import |-> "raise"],
        [on_unknown_encoding_error |-> "raise", on_decoding_error |-> "ignore",
         on_parse_error |-> "callable", on_unresolved |-> "raise",
         on_wildcard_import |-> "ignore"]}

Options(sort_fields, policies) ==
  [sort_fields |-> sort_fields] @@ policies

\* Values of every type and encoding over the same lines.  A coding
\* declaration and an undecodable byte stand in a line, so that an empty
\* file is text or bytes of the default encoding.
Values(lines) ==
  { Str(lines), Bytes("utf-8", TRUE, lines) }
  \cup (IF lines = <<>> THEN {}
        ELSE { Bytes("latin-1", TRUE, lines),
               Bytes("invalid-encoding", TRUE, lines),
               Bytes("ascii", FALSE, lines) })

----------------------------------------------------------------------------
(* The state before a call, and the initial states.                        *)

NoOutcome == [kind |-> "none", value |-> Str(<<>>), error |-> NoError]

Returned(value) == [kind |-> "returned", value |-> value, error |-> NoError]

Raised(error) == [kind |-> "raised", value |-> Str(<<>>), error |-> error]

NoClass ==
  [statement |-> Statement(Line("b = 4")), head_text |-> "",
   unsorted |-> <<>>, initialisation_graph |-> {},
   buckets |-> Buckets(<<Statement(Line("b = 4"))>>),
   sorted_statements |-> <<>>, runtime_graph |-> {}]

Enter(value, opts, n) ==
  /\ pc = "start"
  /\ pass = n
  /\ source = value
  /\ options = opts
  /\ text = value
  /\ encoding = "None"
  /\ newline = "\n"
  /\ statements = <<>>
  /\ graph = {}
  /\ sorted_statements = <<>>
  /\ texts = <<>>
  /\ cls = NoClass
  /\ calls = <<>>
  /\ outcome = NoOutcome

\* Files that exercise decoding, newline handling and the error policies.
InitFiles ==
  \E items \in FileContents, style \in Terminators,
     last \in Terminators \cup {""}, policies \in PolicySets :
    \E value \in Values(Lines(items, style, last)) :
      Enter(value, Options(FALSE, policies), 1)

\* Modules whose top-level statements depend on each other.
InitModules ==
  \E items \in Arrangements(ModuleTexts, MaxStmts),
     action \in {"raise", "ignore"} :
    Enter(Str(Lines(items, "\n", "\n")), Options(FALSE, Uniform(action)), 1)

\* A module that holds one class.
InitClasses ==
  \E body \in ClassBodies, sort_fields \in BOOLEAN :
    Enter(Str(Lines(<<Text("class Model:", body)>>, "\n", "\n")),
          Options(sort_fields, Uniform("raise")), 1)

Init ==
  /\ first = NoOutcome
  /\ (InitFiles \/ InitModules \/ InitClasses)

----------------------------------------------------------------------------
(* osort, step by step.                                                    *)

Finish(result) ==
  /\ pc' = "done"
  /\ outcome' = result

\* The policy is called with the payload; osort raises what the policy
\* raises, or returns `value` when the policy returns.
Report(call, value) ==
  /\ calls' = Append(calls, call)
  /\ Finish(IF options[call.policy] = "raise"
            THEN Raised(Invoke(call, options[call.policy]))
            ELSE Returned(value))

\* Decode that hands back the decoded text, with the undecodable bytes
\* replaced, when decoding fails.
Decode_replacing ==
  /\ pc = "start"
  /\ IF text.type # "bytes"
     THEN /\ pc' = "decoded"
          /\ UNCHANGED << text, encoding, calls, outcome >>
     ELSE IF detect_encoding(text) \notin KnownEncodings
     THEN /\ Report(Call("on_unknown_encoding_error",
                         << <<"unknown encoding", text.codec>> >>,
                         [encoding |-> text.codec]),
                    text)
          /\ UNCHANGED << text, encoding >>
     ELSE IF ~text.valid
     THEN /\ Report(Call("on_decoding_error",
                         << <<"codec can't decode", text.codec>> >>,
                         <<>>),
                    decode(text))
          /\ encoding' = detect_encoding(text)
          /\ text' = decode(text)
     ELSE /\ encoding' = detect_encoding(text)
          /\ text' = decode(text)
          /\ pc' = "decoded"
          /\ UNCHANGED << calls, outcome >>
  /\ UNCHANGED << pass, source, options, newline, statements, graph,
                  sorted_statements, texts, cls, first >>

\* try: detect the encoding of bytes and decode them.
Decode ==
  /\ pc = "start"
  /\ IF text.type # "bytes"
     THEN /\ pc' = "decoded"
          /\ UNCHANGED << text, encoding, calls, outcome >>
     ELSE IF detect_encoding(text) \notin KnownEncodings
     THEN /\ Report(Call("on_unknown_encoding_error",
                         << <<"unknown encoding", text.codec>> >>,
                         [encoding |-> text.codec]),
                    text)
          /\ UNCHANGED << text, encoding >>
     ELSE IF ~text.valid
     THEN /\ Report(Call("on_decoding_error",
                         << <<"codec can't decode", text.codec>> >>,
                         <<>>),
                    text)
          /\ encoding' = detect_encoding(text)
          /\ UNCHANGED text
     ELSE /\ encoding' = detect_encoding(text)
          /\ text' = decode(text)
          /\ pc' = "decoded"
          /\ UNCHANGED << calls, outcome >>
  /\ UNCHANGED << pass, source, options, newline, statements, graph,
                  sorted_statements, texts, cls, first >>

\* newline = detect_newline(text); text = normalize_newlines(text)
Normalize ==
  /\ pc = "decoded"
  /\ newline' = detect_newline(text)
  /\ text' = normalize_newlines(text)
  /\ pc' = "normalized"
  /\ UNCHANGED << pass, source, options, encoding, statements, graph,
                  sorted_statements, texts, cls, calls, outcome, first >>

\* Parse that goes on with the lines that do parse when the policy returns.
Parse_resuming ==
  /\ pc = "normalized"
  /\ IF BadLines(text) # {}
     THEN /\ calls' = Append(calls,
                         Call("on_parse_error",
                              << ParseErrorOf(text).message >>,
                              [lineno |-> ParseErrorOf(text).lineno,
                               col_offset |-> ParseErrorOf(text).col_offset]))
          /\ IF options.on_parse_error = "raise"
             THEN Finish(Raised(Invoke(calls'[Len(calls')], "raise")))
                  /\ UNCHANGED statements
             ELSE /\ statements' =
                       parse([text EXCEPT !.lines =
                                SelectSeq(@, LAMBDA line : line.item # Invalid)])
                  /\ pc' = "parsed"
                  /\ UNCHANGED outcome
     ELSE /\ statements' = parse(text)
          /\ IF parse(text) = <<>>
             THEN Finish(Returned(text))
             ELSE pc' = "parsed" /\ UNCHANGED outcome
          /\ UNCHANGED calls
  /\ UNCHANGED << pass, source, options, text, encoding, newline, graph,
                  sorted_statements, texts, cls, first >>

\* statements = list(parse(text)); return text when there are none.
Parse ==
  /\ pc = "normalized"
  /\ IF BadLines(text) # {}
     THEN /\ Report(Call("on_parse_error",
                         << ParseErrorOf(text).message >>,
                         [lineno |-> ParseErrorOf(text).lineno,
                          col_offset |-> ParseErrorOf(text).col_offset]),
                    text)
          /\ UNCHANGED statements
     ELSE /\ statements' = parse(text)
          /\ IF parse(text) = <<>>
             THEN Finish(Returned(text))
             ELSE pc' = "parsed" /\ UNCHANGED outcome
          /\ UNCHANGED calls
  /\ UNCHANGED << pass, source, options, text, encoding, newline, graph,
                  sorted_statements, texts, cls, first >>

\* graph = module_statements_graph(...); return text when it is None.
BuildGraph ==
  /\ pc = "parsed"
  /\ LET built == module_statements_graph(text, statements, options)
     IN  /\ calls' = calls \o built.calls
         /\ IF built.error.type # "none"
            THEN Finish(Raised(built.error)) /\ UNCHANGED graph
            ELSE IF built.none
            THEN Finish(Returned(text)) /\ UNCHANGED graph
            ELSE /\ graph' = built.graph
                 /\ pc' = "graphed"
                 /\ UNCHANGED outcome
  /\ UNCHANGED << pass, source, options, text, encoding, newline, statements,
                  sorted_statements, texts, cls, first >>

\* SortModule without replace_cycles: the graph is sorted as it was built.
SortModule_uncut ==
  /\ pc = "graphed"
  /\ sorted_statements' = topological_sort(statements, graph)
  /\ IF is_topologically_sorted(sorted_statements', graph)
     THEN pc' = "sorted" /\ UNCHANGED outcome
     ELSE Finish(Raised([type |-> "AssertionError"]))
  /\ UNCHANGED << pass, source, options, text, encoding, newline, statements,
                  graph, texts, cls, calls, first >>

\* SortModule that breaks the cycles keyed by the statements from the last
\* to the first.
SortModule_backwards ==
  /\ pc = "graphed"
  /\ LET acyclic == replace_cycles(graph,
                       [i \in DOMAIN statements |->
                          statements[Len(statements) + 1 - i]])
         order == topological_sort(statements, acyclic)
     IN  /\ graph' = acyclic
         /\ sorted_statements' = order
         /\ IF is_topologically_sorted(order, acyclic)
            THEN pc' = "sorted" /\ UNCHANGED outcome
            ELSE Finish(Raised([type |-> "AssertionError"]))
  /\ UNCHANGED << pass, source, options, text, encoding, newline, statements,
                  texts, cls, calls, first >>

\* replace_cycles, topological_sort, and the assertion on the result.
SortModule ==
  /\ pc = "graphed"
  /\ LET acyclic == replace_cycles(graph, statements)
         order == topological_sort(statements, acyclic)
     IN  /\ graph' = acyclic
         /\ sorted_statements' = order
         /\ IF is_topologically_sorted(order, acyclic)
            THEN pc' = "sorted" /\ UNCHANGED outcome
            ELSE Finish(Raised([type |-> "AssertionError"]))
  /\ UNCHANGED << pass, source, options, text, encoding, newline, statements,
                  texts, cls, calls, first >>

\* The statement whose text the join asks for next.
Next_statement == sorted_statements[Len(texts) + 1]

Emitting == pc = "sorted" /\ Len(texts) < Len(sorted_statements)

\* statement_text_sorted of a statement that is no class: its text.
EmitStatement ==
  /\ Emitting
  /\ Next_statement.node # "ClassDef"
  /\ texts' = Append(texts, Next_statement.text)
  /\ UNCHANGED << pc, pass, source, options, text, encoding, newline,
                  statements, graph, sorted_statements, cls, calls, outcome,
                  first >>

\* _statement_text_sorted_class: split the class, snapshot the hard edges.
ClassSplit ==
  /\ Emitting
  /\ Next_statement.node = "ClassDef"
  /\ LET split == split_class(Next_statement)
     IN  cls' = [NoClass EXCEPT
                   !.statement = Next_statement,
                   !.head_text = split.head_text,
                   !.unsorted = split.body,
                   !.initialisation_graph =
                      class_statements_initialisation_graph(split.body)]
  /\ pc' = "class_split"
  /\ UNCHANGED << pass, source, options, text, encoding, newline, statements,
                  graph, sorted_statements, texts, calls, outcome, first >>

\* Split up the statements into the role buckets.
ClassPartition ==
  /\ pc = "class_split"
  /\ LET b == Buckets(cls.unsorted)
     IN  IF b.raised # ""
         THEN Finish(Raised([type |-> b.raised])) /\ UNCHANGED cls
         ELSE /\ cls' = [cls EXCEPT !.buckets = b]
              /\ pc' = "class_partitioned"
              /\ UNCHANGED outcome
  /\ UNCHANGED << pass, source, options, text, encoding, newline, statements,
                  graph, sorted_statements, texts, calls, first >>

\* Sort each bucket and join the buckets.
ClassJoin ==
  /\ pc = "class_partitioned"
  /\ IF StageRaises(cls.buckets) # ""
     THEN Finish(Raised([type |-> StageRaises(cls.buckets)])) /\ UNCHANGED cls
     ELSE /\ cls' = [cls EXCEPT !.sorted_statements =
                                   Joined(cls.buckets, options.sort_fields)]
          /\ pc' = "class_joined"
          /\ UNCHANGED outcome
  /\ UNCHANGED << pass, source, options, text, encoding, newline, statements,
                  graph, sorted_statements, texts, calls, first >>

\* Fix any hard dependencies.
ClassHardSort ==
  /\ pc = "class_joined"
  /\ cls' = [cls EXCEPT !.sorted_statements =
                          HardSorted(cls.sorted_statements, cls.initialisation_graph)]
  /\ pc' = "class_hard"
  /\ UNCHANGED << pass, source, options, text, encoding, newline, statements,
                  graph, sorted_statements, texts, calls, outcome, first >>

\* Resolve the soft dependencies on private names; hard ones take priority.
ClassRuntimeSort ==
  /\ pc = "class_hard"
  /\ LET runtime == RuntimeGraph(cls.sorted_statements, cls.initialisation_graph)
     IN  cls' = [cls EXCEPT
                   !.runtime_graph = runtime,
                   !.sorted_statements = topological_sort(cls.sorted_statements, runtime)]
  /\ pc' = "class_runtime"
  /\ UNCHANGED << pass, source, options, text, encoding, newline, statements,
                  graph, sorted_statements, texts, calls, outcome, first >>

\* The class-level sorter ends with `result`: what it raised escapes from
\* osort, the text it returned is the next text of the join.
ClassReturn(result) ==
  IF result.raised # ""
  THEN Finish(Raised([type |-> result.raised])) /\ UNCHANGED texts
  ELSE /\ texts' = Append(texts, result.text)
       /\ pc' = "sorted"
       /\ UNCHANGED outcome

\* Return the text of the class: unchanged, or the head and the sorted body.
ClassEmit ==
  /\ pc = "class_runtime"
  /\ ClassReturn(ClassText(cls.statement, "",
                           cls.sorted_statements = cls.unsorted,
                           [i \in DOMAIN cls.sorted_statements |->
                              statement_text_sorted(cls.sorted_statements[i],
                                                    options.sort_fields)]))
  /\ UNCHANGED << pass, source, options, text, encoding, newline, statements,
                  graph, sorted_statements, cls, calls, first >>

\* Output that leaves the "\n" of the join in place of the newline of the
\* input.
Output_plain ==
  /\ pc = "sorted"
  /\ Len(texts) = Len(sorted_statements)
  /\ Finish(Returned(IF encoding # "None"
                     THEN encode(JoinedOutput(texts), encoding)
                     ELSE JoinedOutput(texts)))
  /\ UNCHANGED << pass, source, options, text, encoding, newline, statements,
                  graph, sorted_statements, texts, cls, calls, first >>

\* Join the texts, put the newline of the input back, encode.
Output ==
  /\ pc = "sorted"
  /\ Len(texts) = Len(sorted_statements)
  /\ LET joined == JoinedOutput(texts)
         output == IF newline # "\n"
                   THEN [joined EXCEPT !.lines = Reterminated(@, newline)]
                   ELSE joined
     IN  Finish(Returned(IF encoding # "None" THEN encode(output, encoding)
                         ELSE output))
  /\ UNCHANGED << pass, source, options, text, encoding, newline, statements,
                  graph, sorted_statements, texts, cls, calls, first >>

\* The caller sorts the result of the first call again.
Again ==
  /\ pc = "done"
  /\ pass = 1
  /\ outcome.kind = "returned"
  /\ first' = outcome
  /\ pass' = 2
  /\ source' = outcome.value
  /\ text' = outcome.value
  /\ pc' = "start"
  /\ encoding' = "None"
  /\ newline' = "\n"
  /\ statements' = <<>>
  /\ graph' = {}
  /\ sorted_statements' = <<>>
  /\ texts' = <<>>
  /\ cls' = NoClass
  /\ calls' = <<>>
  /\ outcome' = NoOutcome
  /\ UNCHANGED options

Next ==
  \/ Decode
  \/ Normalize
  \/ Parse
  \/ BuildGraph
  \/ SortModule
  \/ EmitStatement
  \/ ClassSplit
  \/ ClassPartition
  \/ ClassJoin
  \/ ClassHardSort
  \/ ClassRuntimeSort
  \/ ClassEmit
  \/ Output
  \/ Again

Spec == Init /\ [][Next]_vars

----------------------------------------------------------------------------
(* The properties of osort.                                                *)

\* b stands before a in the order.
Precedes(order, b, a) ==
  \E i, j \in DOMAIN order : i < j /\ order[i] = b /\ order[j] = a

\* The texts of the statements of a value, in order.
Items(value) ==
  [i \in DOMAIN SelectSeq(value.lines, LAMBDA line : line.item # Comment) |->
     SelectSeq(value.lines, LAMBDA line : line.item # Comment)[i].item]

\* The texts `out` are the texts `inp` in some order, and so are the bodies
\* of the classes among them, at every depth.
RECURSIVE SameStatements(_, _)
SameStatements(out, inp) ==
  /\ Len(out) = Len(inp)
  /\ \A j, k \in DOMAIN out : out[j].src = out[k].src => j = k
  /\ \A i \in DOMAIN inp :
       \E j \in DOMAIN out :
         /\ out[j].src = inp[i].src
         /\ SameStatements(out[j].body, inp[i].body)

Done == pc = "done"

Returns == pc = "done" /\ outcome.kind = "returned"

\* The last policy call of this call of osort.
LastCall == calls[Len(calls)]

\* C1: for every input on which osort returns, sorting the result again
\* with the same options returns exactly the result: osort(osort(x)) equals
\* osort(x).
Idempotent ==
  (Done /\ pass = 2) => outcome = first

\* C2: the sorted top-level statements are a permutation of the parsed
\* ones, the body of a class is a permutation of its input body after the
\* join and after both topological sorts, and the returned value holds the
\* statements of the input, each once, at every depth of nesting.
Permutation ==
  /\ sorted_statements # <<>> => IsPermutation(sorted_statements, statements)
  /\ pc \in {"class_joined", "class_hard", "class_runtime"} =>
       IsPermutation(cls.sorted_statements, cls.unsorted)
  /\ (Returns /\ sorted_statements # <<>>) =>
       SameStatements(Items(outcome.value), Items(source))

\* C2 witness: osort returned a module whose top-level statements it
\* reordered and which holds a class whose body it reordered.
PermutationWitness ==
  /\ Returns
  /\ sorted_statements # <<>>
  /\ sorted_statements # statements
  /\ \E i \in DOMAIN texts : texts[i].layout = "joined"

\* C3: when the hard graph H of a class body is acyclic, the body respects
\* every edge of H after the repair with H and after the repair with the
\* runtime graph: what a statement needs at load time stands before it.
LoadOrderPreserved ==
  (/\ pc \in {"class_hard", "class_runtime"}
   /\ IsAcyclic(cls.initialisation_graph)) =>
    \A e \in cls.initialisation_graph :
      Precedes(cls.sorted_statements, e[2], e[1])

\* C3 witness: the final order of a body whose joined buckets broke a hard
\* edge and whose runtime graph holds more than the hard edges.
LoadOrderWitness ==
  /\ pc = "class_runtime"
  /\ cls.runtime_graph # cls.initialisation_graph
  /\ \E e \in cls.initialisation_graph :
       Precedes(Joined(cls.buckets, options.sort_fields), e[1], e[2])

\* C4: the assertion of osort never fails: after replace_cycles and
\* topological_sort every statement stands after all statements it depends
\* on in the cycle-broken graph, and in a module without cycles after all
\* statements it refers to.
ModuleOrderValid ==
  /\ (Done /\ outcome.kind = "raised") => outcome.error.type # "AssertionError"
  /\ sorted_statements # <<>> =>
       /\ \A e \in graph : Precedes(sorted_statements, e[2], e[1])
       /\ IsAcyclic(ModuleEdges(statements)) =>
            \A e \in ModuleEdges(statements) :
              Precedes(sorted_statements, e[2], e[1])

\* C4 witness: a module with a dependency cycle, whose statements had to
\* be reordered, passed the assertion.
ModuleOrderWitness ==
  /\ pc = "sorted"
  /\ sorted_statements # <<>>
  /\ sorted_statements # statements
  /\ ~IsAcyclic(ModuleEdges(statements))

\* C5: when the analysis is given up after a parse error, a wildcard
\* import or an unresolved reference and the policy returns, osort returns
\* its input unchanged: the same bytes, the same line terminators.
AbandonedReturnsInput ==
  (/\ Returns
   /\ calls # <<>>
   /\ LastCall.policy \in {"on_parse_error", "on_unresolved", "on_wildcard_import"}) =>
    outcome.value = source

\* C6: when the encoding of bytes is unknown or the bytes do not decode,
\* and the policy returns, osort returns the original bytes and has
\* normalized, parsed and sorted nothing.
UndecodableReturnsInput ==
  (/\ Done
   /\ calls # <<>>
   /\ calls[1].policy \in {"on_unknown_encoding_error", "on_decoding_error"}
   /\ options[calls[1].policy] # "raise") =>
    /\ outcome = Returned(source)
    /\ text = source
    /\ statements = <<>>
    /\ sorted_statements = <<>>
    /\ texts = <<>>

\* C6 witness: bytes with \r\n terminators that do not decode came back
\* from a policy that returned.
UndecodableWitness ==
  /\ Returns
  /\ calls # <<>>
  /\ calls[1].policy = "on_decoding_error"
  /\ \E i \in DOMAIN source.lines : source.lines[i].term = "\r\n"

\* The payload of each policy as documented.
Documented(policy) ==
  CASE policy = "on_unknown_encoding_error" -> {"message", "encoding"}
    [] policy = "on_decoding_error" -> {"message"}
    [] policy = "on_parse_error" -> {"message", "lineno", "col_offset"}
    [] policy = "on_unresolved" -> {"message", "name", "lineno", "col_offset"}
    [] policy = "on_wildcard_import" -> {"lineno", "col_offset"}

\* The error kind of each policy.
ErrorKind(policy) ==
  CASE policy = "on_unknown_encoding_error" -> "UnknownEncodingError"
    [] policy = "on_decoding_error" -> "DecodingError"
    [] policy = "on_parse_error" -> "ParseError"
    [] policy = "on_unresolved" -> "ResolutionError"
    [] policy = "on_wildcard_import" -> "WildcardImportError"

\* Under "raise" the call of the policy ends osort with the typed error of
\* its kind, which carries the values the policy received.
RaiseCarriesPayload ==
  (Done /\ calls # <<>> /\ options[LastCall.policy] = "raise") =>
    /\ outcome.kind = "raised"
    /\ outcome.error.type = ErrorKind(LastCall.policy)
    /\ \A field \in Documented(LastCall.policy) :
         outcome.error[field] = Received(LastCall)[field]

\* C7 as claimed: every policy is called with exactly the documented
\* payload, every field of it passed by keyword, and under "raise" the
\* typed error carries the payload.
PayloadByKeyword ==
  /\ \A i \in DOMAIN calls :
       /\ calls[i].args = <<>>
       /\ DOMAIN calls[i].kwargs = Documented(calls[i].policy)
  /\ RaiseCarriesPayload

\* C7 as amended: every policy receives exactly the documented payload; the
\* unknown-encoding, decoding and parse policies get the message as their
\* one positional argument and the other fields by keyword; lineno and
\* col_offset are always passed by keyword; under "raise" the typed error
\* carries the payload.
PayloadContract ==
  /\ \A i \in DOMAIN calls :
       /\ DOMAIN Received(calls[i]) = Documented(calls[i].policy)
       /\ Len(calls[i].args) <= 1
       /\ calls[i].policy \in {"on_unknown_encoding_error", "on_decoding_error",
                               "on_parse_error"} =>
            /\ Len(calls[i].args) = 1
            /\ DOMAIN calls[i].kwargs = Documented(calls[i].policy) \ {"message"}
       /\ Documented(calls[i].policy) \ {"message", "name"}
            \subseteq DOMAIN calls[i].kwargs
  /\ RaiseCarriesPayload

\* C7 witness: a parse error at the second line was raised.
PayloadWitness ==
  /\ Done
  /\ outcome.kind = "raised"
  /\ outcome.error.type = "ParseError"
  /\ outcome.error.lineno = 2

EarlyPolicies ==
  {"on_unknown_encoding_error", "on_decoding_error", "on_parse_error"}

\* C8: in one call of osort the unknown-encoding, decoding and parse
\* policies are called at most once together; the call of one of them is
\* the only policy call, osort ends with it and no later stage has run;
\* only on_unresolved and on_wildcard_import are called more than once.
AtMostOnce ==
  /\ Cardinality({i \in DOMAIN calls : calls[i].policy \in EarlyPolicies}) <= 1
  /\ (\E i \in DOMAIN calls : calls[i].policy \in EarlyPolicies) =>
       /\ Len(calls) = 1
       /\ Done
       /\ graph = {}
       /\ sorted_statements = <<>>
       /\ texts = <<>>
       /\ calls[1].policy # "on_parse_error" => (text = source /\ statements = <<>>)
  /\ Len(calls) > 1 =>
       \A i \in DOMAIN calls :
         calls[i].policy \in {"on_unresolved", "on_wildcard_import"}

\* C8 witness: the parse policy returned for a file that also holds
\* references no statement binds; it was the only call.
AtMostOnceWitness ==
  /\ Returns
  /\ Len(calls) = 1
  /\ calls[1].policy = "on_parse_error"
  /\ \E i \in DOMAIN source.lines :
       source.lines[i].item = Line("def fun(): return _other() + _same()")

\* C9: whenever osort returns, the dominant line terminator of the result
\* is the dominant line terminator of the input.
NewlinePreserved ==
  Returns => detect_newline(outcome.value) = detect_newline(source)

\* C10: whenever osort returns, the result has the type of the input, and
\* bytes come back under the encoding of the input.
TypePreserved ==
  Returns =>
    /\ outcome.value.type = source.type
    /\ source.type = "bytes" => outcome.value.codec = source.codec

\* osort sorted the statements of the input and moved none: the top-level
\* order is the one of the input and every statement, the classes included,
\* came back with the text it had.
InOrder ==
  /\ Returns
  /\ sorted_statements # <<>>
  /\ sorted_statements = statements
  /\ texts = [i \in DOMAIN statements |-> statements[i].text]

\* The value ends with a line terminator.
EndsTerminated(value) ==
  value.lines # <<>> /\ value.lines[Len(value.lines)].term # ""

\* All line terminators of the value are the same.
OneTerminator(value) ==
  \A i, j \in DOMAIN value.lines :
    (value.lines[i].term # "" /\ value.lines[j].term # "") =>
      value.lines[i].term = value.lines[j].term

TrailingTerminator ==
  (Returns /\ calls = <<>>) =>
    (outcome.value.lines = <<>> \/ EndsTerminated(outcome.value))

\* The role buckets in the order in which section 3 of the specification
\* declares them.
DeclaredOrder ==
  << "docstrings", "special_properties", "inner_classes",
     "odoo_private_attributes", "other_private_attributes", "orm_overrides",
     "default_methods", "properties", "odoo_fields",
     "odoo_special_attributes", "lifecycle_operations", "compute_methods",
     "selection_methods", "constraint_methods", "onchange_methods", "actions",
     "methods", "regular_operations" >>

\* The buckets of b that hold the statement.
BucketsOf(b, statement) ==
  {group \in Range(SplitOrder) : statement \in Range(b[group])}

\* The first bucket of `order` whose membership test the statement passes.
FirstMatch(order, statement, leading) ==
  order[Min({i \in DOMAIN order : Satisfies(order[i], statement, leading)})]

\* Every statement of the body is in one bucket: the first of `order`
\* whose test it passes.
AssignedByFirstMatch(order) ==
  pc = "class_partitioned" =>
    \A i \in DOMAIN cls.unsorted :
      BucketsOf(cls.buckets, cls.unsorted[i])
        = {FirstMatch(order, cls.unsorted[i], i = 1)}

\* C13 as claimed: each statement of a class body is in exactly one bucket,
\* the first bucket in the declared order 1..18 whose membership test it
\* satisfies.
BucketByDeclaredOrder == AssignedByFirstMatch(DeclaredOrder)

\* C13 as amended: each statement of a class body is in exactly one bucket,
\* the first whose membership test it satisfies in the order in which the
\* tests are evaluated: docstring, special properties, lifecycle operators,
\* regular operators, inner classes, post-field attributes,
\* framework-private attributes, other private attributes, ORM overrides,
\* default methods, fields, compute, selection, constraint, onchange,
\* actions, regular properties, remaining methods.
BucketBySplitOrder == AssignedByFirstMatch(SplitOrder)

\* C13 witness: a body was split in which a statement passes the tests of
\* the framework-private and of the post-field attributes, and another
\* one those of the ORM overrides and of the post-field attributes.
BucketWitness ==
  /\ pc = "class_partitioned"
  /\ \E s \in Range(cls.buckets.odoo_special_attributes) :
       _is_odoo_private_attribute(s)
  /\ \E s \in Range(cls.buckets.odoo_special_attributes) :
       _is_orm_override(s)

\* No statement of the class body refers to a name another one binds.
NoDependencies == ModuleEdges(cls.unsorted) = {}

\* The bucket that holds the statement.
BucketOf(statement) ==
  CHOOSE group \in Range(SplitOrder) : statement \in Range(cls.buckets[group])

\* The final order of a body without dependencies lists the statements
\* bucket after bucket, the buckets in the order `order`.
GroupedBy(order) ==
  (pc = "class_runtime" /\ NoDependencies) =>
    \A i, j \in DOMAIN cls.sorted_statements :
      i < j => IndexOf(order, BucketOf(cls.sorted_statements[i]))
                 <= IndexOf(order, BucketOf(cls.sorted_statements[j]))

\* C14 as claimed: for a class body with no dependencies among its
\* statements, the output body lists the statements grouped by bucket, the
\* buckets in the declared order of the role-bucket list, where the ORM
\* overrides stand between the other private attributes and the default
\* methods.
JoinedInDeclaredOrder == GroupedBy(DeclaredOrder)

\* C14 as amended: for a class body with no dependencies among its
\* statements, the output body lists the statements grouped by bucket, the
\* buckets in the order of the role-bucket list except that the ORM
\* overrides stand between the onchange methods and the actions.
JoinedInJoinOrder == GroupedBy(JoinOrder)

\* C14 witness: the final order of a body without dependencies that holds
\* an ORM override, a field and statements of two more buckets, and whose
\* input order was another one.
JoinOrderWitness ==
  /\ pc = "class_runtime"
  /\ NoDependencies
  /\ cls.buckets.orm_overrides # <<>>
  /\ cls.buckets.odoo_fields # <<>>
  /\ Cardinality({BucketOf(s) : s \in Range(cls.unsorted)}) >= 4
  /\ cls.sorted_statements # cls.unsorted

\* The key the default methods are to be sorted on: default_get first, the
\* others by the position of their field in the field list, then by name.
DefaultKey(statement) ==
  IF statement.bindings[1] = "default_get" THEN <<-1, statement.bindings[1]>>
  ELSE _statement_binding_sort_key(
         EndingKey(FieldList(cls.buckets, options.sort_fields)), statement)

\* C15: for a class body with any number of default methods the
\* class-level sort completes, and in the joined body the default methods
\* stand with default_get first and the others by the position of their
\* field in the field list, ties broken by the binding.
DefaultMethodsSorted ==
  /\ (Done /\ cls.buckets.default_methods # <<>>) => outcome.kind = "returned"
  /\ pc = "class_joined" =>
       \A i, j \in DOMAIN cls.sorted_statements :
         (/\ i < j
          /\ cls.sorted_statements[i] \in Range(cls.buckets.default_methods)
          /\ cls.sorted_statements[j] \in Range(cls.buckets.default_methods)) =>
           ~KeyLess(DefaultKey(cls.sorted_statements[j]),
                    DefaultKey(cls.sorted_statements[i]))

\* Two top-level statements of the input that stand on a common cycle of
\* references.
OnCycle(a, b) == SameCycle(TransitiveClosure(ModuleEdges(statements)), a, b)

\* C16: when top-level statements form a dependency cycle, the graph that
\* replace_cycles leaves is acyclic, osort completes, and the members of
\* the cycle stand in the output in the relative order of the input.
CyclesKeepInputOrder ==
  sorted_statements # <<>> =>
    /\ IsAcyclic(graph)
    /\ (Done /\ \E a, b \in Range(statements) : OnCycle(a, b)) =>
         outcome.kind = "returned"
    /\ \A a, b \in Range(statements) :
         (OnCycle(a, b) /\ Precedes(statements, a, b)) =>
           /\ Precedes(sorted_statements, a, b)
           /\ Returns =>
                \E i, j \in DOMAIN outcome.value.lines :
                  /\ i < j
                  /\ outcome.value.lines[i].item.src = a.text.src
                  /\ outcome.value.lines[j].item.src = b.text.src

\* C16 witness: osort returned a module of four statements, two of them
\* on a cycle and not next to each other in the input, in another order
\* than the one of the input.
CyclesWitness ==
  /\ Returns
  /\ Len(statements) = 4
  /\ sorted_statements # statements
  /\ \E i, j \in DOMAIN statements :
       j > i + 1 /\ OnCycle(statements[i], statements[j])

\* The buckets that are sorted on a closed identifier list, and the list.
ClosedList(group) ==
  CASE group = "special_properties" -> SPECIAL_PROPERTIES
    [] group = "odoo_private_attributes" -> ODOO_PRIVATE_ATTRIBUTES
    [] group = "odoo_special_attributes" -> ODOO_SPECIAL_ATTRIBUTES
    [] group = "lifecycle_operations" -> LIFECYCLE_OPERATIONS
    [] group = "orm_overrides" -> ODOO_MODEL_METHODS
    [] group = "regular_operations" -> REGULAR_OPERATIONS

ClosedListBuckets ==
  {"special_properties", "odoo_private_attributes", "odoo_special_attributes",
   "lifecycle_operations", "orm_overrides", "regular_operations"}

\* The rank of a name in the list L: its place, or +infinity when missing.
RankIn(L, name) ==
  IF name \in Range(L)
  THEN Min({i \in DOMAIN L : L[i] = name /\ \A j \in DOMAIN L : L[j] = name => j <= i})
  ELSE sys_maxsize

\* The rank of the first binding, and the first binding.
FirstBindingKey(L, statement) ==
  << RankIn(L, statement.bindings[1]), statement.bindings[1] >>

\* The smallest rank among all bindings, and the first binding.
SmallestBindingKey(L, statement) ==
  << Min({RankIn(L, binding) : binding \in Range(statement.bindings)}),
     statement.bindings[1] >>

\* In the joined body the statements of the closed-list bucket `group`
\* stand in the order of their keys.
SortedOn(group, by_first) ==
  \A i, j \in DOMAIN cls.sorted_statements :
    (/\ i < j
     /\ cls.sorted_statements[i] \in Range(cls.buckets[group])
     /\ cls.sorted_statements[j] \in Range(cls.buckets[group])) =>
      IF by_first
      THEN ~KeyLess(FirstBindingKey(ClosedList(group), cls.sorted_statements[j]),
                    FirstBindingKey(ClosedList(group), cls.sorted_statements[i]))
      ELSE ~KeyLess(SmallestBindingKey(ClosedList(group), cls.sorted_statements[j]),
                    SmallestBindingKey(ClosedList(group), cls.sorted_statements[i]))

\* C17 as claimed: the statements of each closed-list bucket are sorted by
\* the pair (rank in the list of the statement's first binding, text of the
\* first binding), a missing binding ranking as +infinity, also when a
\* statement has several bindings.
ClosedListByFirstBinding ==
  pc = "class_joined" => \A group \in ClosedListBuckets : SortedOn(group, TRUE)

\* C17 as amended: the statements of each closed-list bucket are sorted by
\* the pair (smallest rank in the list among all bindings of the statement,
\* text of the first binding), a missing binding ranking as +infinity.
ClosedListBySmallestRank ==
  pc = "class_joined" => \A group \in ClosedListBuckets : SortedOn(group, FALSE)

\* C17 witness: the framework-private attributes were joined in another
\* order than the one of the input; one of them has two targets, the
\* first of which is not in the list.
ClosedListWitness ==
  /\ pc = "class_joined"
  /\ Len(cls.buckets.odoo_private_attributes) = 2
  /\ \E s \in Range(cls.buckets.odoo_private_attributes) :
       /\ Len(s.bindings) = 2
       /\ s.bindings[1] \notin Range(ODOO_PRIVATE_ATTRIBUTES)
  /\ cls.buckets.odoo_private_attributes
       # SelectSeq(cls.sorted_statements,
                   LAMBDA s : s \in Range(cls.buckets.odoo_private_attributes))

\* The buckets that are sorted on the field list.
HookBuckets ==
  {"compute_methods", "selection_methods", "constraint_methods",
   "onchange_methods"}

\* Suffix-to-rank: the place in the field list of the field whose name the
\* name of the method ends with, +infinity when there is none.
SuffixRank(fields, statement) ==
  IF \E i \in DOMAIN fields : fields[i] = Ending(statement.bindings[1])
  THEN CHOOSE i \in DOMAIN fields : fields[i] = Ending(statement.bindings[1])
  ELSE sys_maxsize

\* b does not stand before a by (suffix-to-rank, binding).
RankOrdered(fields, a, b) ==
  ~KeyLess(<<SuffixRank(fields, b), b.bindings[1]>>,
           <<SuffixRank(fields, a), a.bindings[1]>>)

\* C18: in the joined body the compute, the selection, the constraint and
\* the onchange methods stand by (suffix-to-rank against the field list,
\* binding); in the final order of a body without dependencies the method
\* of an earlier field of the list stands before the method, of the same
\* bucket, of a later field.
HooksByFieldRank ==
  /\ pc = "class_joined" =>
       \A group \in HookBuckets :
         \A i, j \in DOMAIN cls.sorted_statements :
           (/\ i < j
            /\ cls.sorted_statements[i] \in Range(cls.buckets[group])
            /\ cls.sorted_statements[j] \in Range(cls.buckets[group])) =>
             RankOrdered(FieldList(cls.buckets, options.sort_fields),
                         cls.sorted_statements[i], cls.sorted_statements[j])
  /\ (pc = "class_runtime" /\ NoDependencies) =>
       \A group \in HookBuckets :
         \A a, b \in Range(cls.buckets[group]) :
           (/\ SuffixRank(FieldList(cls.buckets, options.sort_fields), a)
                 < SuffixRank(FieldList(cls.buckets, options.sort_fields), b)
            /\ SuffixRank(FieldList(cls.buckets, options.sort_fields), b)
                 < sys_maxsize) =>
             Precedes(cls.sorted_statements, a, b)

\* C18 witness: the final order of a body without dependencies that
\* declares two fields and, in another order, their two constraint or
\* their two onchange methods.
HooksWitness ==
  /\ pc = "class_runtime"
  /\ NoDependencies
  /\ Len(cls.buckets.odoo_fields) = 2
  /\ \E group \in {"constraint_methods", "onchange_methods"} :
       /\ Len(cls.buckets[group]) = 2
       /\ SelectSeq(cls.sorted_statements,
                    LAMBDA s : s \in Range(cls.buckets[group]))
            # cls.buckets[group]

\* The field declarations of the class body.
Fields == Range(cls.buckets.odoo_fields)

\* One of the two statements refers to a name the other one binds.
DependOnEachOther(f, g) ==
  <<f, g>> \in ModuleEdges(cls.unsorted) \/ <<g, f>> \in ModuleEdges(cls.unsorted)

\* The statement refers to a name that another statement of the body binds.
DependsOnAnother(f) == \E e \in ModuleEdges(cls.unsorted) : e[1] = f

\* f is to stand before g: by the order of the input, or by the first
\* binding when sort_fields is enabled.
FieldBefore(f, g) ==
  IF options.sort_fields THEN StrLess(f.bindings[1], g.bindings[1])
  ELSE Precedes(cls.unsorted, f, g)

\* With sort_fields the hooks are ranked on the alphabetical field list:
\* in the joined body, the hook of the field that comes first in the
\* alphabet stands before the hook, of the same bucket, of a later one.
HooksRankedOnSortedFields ==
  (pc = "class_joined" /\ options.sort_fields) =>
    \A group \in HookBuckets :
      \A a, b \in Range(cls.buckets[group]) :
        (/\ \E f \in Fields : f.bindings[1] = Ending(a.bindings[1])
         /\ \E f \in Fields : f.bindings[1] = Ending(b.bindings[1])
         /\ StrLess(Ending(a.bindings[1]), Ending(b.bindings[1]))) =>
          Precedes(cls.sorted_statements, a, b)

\* C19 as claimed: fields that have no dependencies among each other stand
\* in the output in their input order when sort_fields is disabled and in
\* the alphabetical order of their first binding when it is enabled, and
\* the alphabetical field list ranks the hooks.
FieldsOrderedUnlessLinked ==
  /\ pc = "class_runtime" =>
       \A f, g \in Fields :
         (~DependOnEachOther(f, g) /\ FieldBefore(f, g)) =>
           Precedes(cls.sorted_statements, f, g)
  /\ HooksRankedOnSortedFields

\* C19 as amended: fields that depend on no other statement of the class
\* body stand in the output in their input order when sort_fields is
\* disabled and in the alphabetical order of their first binding when it
\* is enabled, and the alphabetical field list ranks the hooks.
FieldsOrderedUnlessDependent ==
  /\ pc = "class_runtime" =>
       \A f, g \in Fields :
         (~DependsOnAnother(f) /\ ~DependsOnAnother(g) /\ FieldBefore(f, g)) =>
           Precedes(cls.sorted_statements, f, g)
  /\ HooksRankedOnSortedFields

\* C19 witness: with sort_fields, the final order of a body that declares
\* beta before alpha, neither depending on another statement, and two
\* hooks of one bucket: alpha stands before beta.
FieldsWitness ==
  /\ pc = "class_runtime"
  /\ options.sort_fields
  /\ Len(cls.buckets.odoo_fields) = 2
  /\ cls.buckets.odoo_fields[1].bindings[1] = "beta"
  /\ \A f \in Fields : ~DependsOnAnother(f)
  /\ Precedes(cls.sorted_statements,
              cls.buckets.odoo_fields[2], cls.buckets.odoo_fields[1])
  /\ \E group \in HookBuckets : Len(cls.buckets[group]) = 2

\* The text that is to stand for a statement of a sorted body: its own
\* text, and for a class its text when the order of its body does not
\* change, else its head and the texts for its body in the final order.
RECURSIVE ExpectedText(_)
ExpectedJoined(statement, inner, order) ==
  IF order = inner THEN statement.text
  ELSE [src |-> split_class(statement).head_text, layout |-> "joined",
        body |-> [i \in DOMAIN order |-> ExpectedText(order[i])]]

ExpectedText(statement) ==
  IF statement.node # "ClassDef" THEN statement.text
  ELSE ExpectedJoined(statement, split_class(statement).body,
                      FinalOrder(split_class(statement).body,
                                 options.sort_fields))

\* The class-level sorter has just returned the text of a class.
ClassTextReturned ==
  /\ pc = "sorted"
  /\ texts # <<>>
  /\ sorted_statements[Len(texts)].node = "ClassDef"

\* C20: when the final order of a class body is the order of the input,
\* the class-level sorter returns the text of the class as it was, nested
\* classes included; otherwise it returns the head text, a newline and
\* the texts of the body joined in the final order, every inner class
\* sorted in the same way.
UnchangedClassKept ==
  ClassTextReturned =>
    /\ cls.statement = sorted_statements[Len(texts)]
    /\ texts[Len(texts)] =
         IF cls.sorted_statements = cls.unsorted THEN cls.statement.text
         ELSE [src |-> cls.head_text, layout |-> "joined",
               body |-> [i \in DOMAIN cls.sorted_statements |->
                           ExpectedText(cls.sorted_statements[i])]]

\* C20 witness: the first call moved the statements of a class and of its
\* inner class and returned the joined text; the call on that result
\* found the order of the class final and returned its text as it was.
UnchangedClassWitness ==
  /\ ClassTextReturned
  /\ pass = 2
  /\ first.value.lines[1].item.layout = "joined"
  /\ \E i \in DOMAIN first.value.lines[1].item.body :
       first.value.lines[1].item.body[i].layout = "joined"
  /\ cls.sorted_statements = cls.unsorted
  /\ texts[1] = source.lines[1].item

\* The statement without its run-time references to public names.
WithoutPublic(statement) ==
  [statement EXCEPT !.soft = {name \in @ : StartsWith(name, "_")}]

\* The body whose statements differ from those of `stmts` only in that
\* they have no run-time references to public names.
PrivateOnly(stmts) == [i \in DOMAIN stmts |-> WithoutPublic(stmts[i])]

\* a refers at run time to a name that starts with an underscore (or not:
\* `private` is FALSE) and that its sibling b binds.
RefersTo(a, b, private) ==
  /\ a # b
  /\ \E name \in a.soft : Binds(b, name) /\ (StartsWith(name, "_") <=> private)

\* The load-time edges and the run-time references to private names of
\* the class body.
PrivateAndHard ==
  {e \in Range(cls.unsorted) \X Range(cls.unsorted) :
     \/ RefersTo(e[1], e[2], TRUE)
     \/ e[1] # e[2] /\ \E name \in e[1].hard : Binds(e[2], name)}

\* C21: a run-time reference to a sibling whose name does not start with
\* an underscore adds no ordering constraint: the final order of a class
\* body is the final order of the body that differs from it only in having
\* no such references; and a sibling whose underscore name a statement
\* refers to at run time stands before that statement in the final order,
\* unless the two stand on a common cycle of load-time edges and private
\* run-time references.
PrivateReferencesOnly ==
  pc = "class_runtime" =>
    /\ PrivateOnly(cls.sorted_statements)
         = FinalOrder(PrivateOnly(cls.unsorted), options.sort_fields)
    /\ \A a, b \in Range(cls.sorted_statements) :
         (/\ RefersTo(a, b, TRUE)
          /\ ~SameCycle(TransitiveClosure(PrivateAndHard), a, b)) =>
           Precedes(cls.sorted_statements, b, a)

\* C21 witness: the final order of a body in which a statement stands
\* before a sibling whose public name it refers to at run time, and behind
\* a sibling whose underscore name it refers to and that stood behind it
\* in the input.
PrivateReferencesWitness ==
  /\ pc = "class_runtime"
  /\ \E a, b, c \in Range(cls.sorted_statements) :
       /\ RefersTo(a, b, FALSE)
       /\ Precedes(cls.sorted_statements, a, b)
       /\ RefersTo(a, c, TRUE)
       /\ Precedes(cls.unsorted, a, c)
       /\ Precedes(cls.sorted_statements, c, a)

\* C22: the membership tests of the buckets return a boolean for every
\* statement of a class body and never raise, also for a function with a
\* call decorator whose callee is a bare name: no AttributeError escapes
\* from osort, and every statement of a split body is in exactly one
\* bucket.
ClassificationTotal ==
  /\ Done => ~(outcome.kind = "raised" /\ outcome.error.type = "AttributeError")
  /\ pc = "class_partitioned" =>
       \A s \in Range(cls.unsorted) :
         Cardinality(BucketsOf(cls.buckets, s)) = 1

\* The class-level sorter leaves the body of the class with text t, and
\* the body of every class nested in it, in the order it has.
RECURSIVE SortedAtEveryDepth(_)
SortedAtEveryDepth(t) ==
  (Statement(t).node = "ClassDef" /\ t.body # <<>>) =>
    /\ FinalOrder(split_class(Statement(t)).body, options.sort_fields)
         = split_class(Statement(t)).body
    /\ \A i \in DOMAIN t.body : SortedAtEveryDepth(t.body[i])

\* C23: every class body is sorted at every depth of nesting, whether or
\* not the order of the enclosing class changed: in the value that osort
\* returns after sorting, the class-level sorter would reorder no class
\* body, at any depth.
EveryClassBodySorted ==
  (Returns /\ calls = <<>>) =>
    \A i \in DOMAIN Items(outcome.value) :
      SortedAtEveryDepth(Items(outcome.value)[i])

====
